---------------------------- MODULE Spec2Model ----------------------------
(***************************************************************************)
(* A model of the virtual scroll engine of stencil-virtualized:            *)
(*   - FenwickTree (src/src/utils/fenwick-tree.ts): the prefix-sum store,  *)
(*   - VirtualScroll (src/unnamed/part_003): the engine that owns one      *)
(*     FenwickTree of item heights, publishes the total height and yields  *)
(*     the visible items for the scroll position of its window container.  *)
(*   - VirtualizedList (src/src/components/virtualized-list/               *)
(*     virtualized-list.tsx): the component that owns one engine and       *)
(*     recomputes the visible items in an animation frame.                 *)
(* JavaScript arrays are 0-based; a TLA+ sequence is 1-based, so slot k of *)
(* a JavaScript array a is a[k + 1] here.  All heights are integers.       *)
(***************************************************************************)
EXTENDS Integers, Sequences, FiniteSets, TLC

VARIABLES
    items,                \* VirtualScroll.items: the payloads, in order
    estimatedItemHeight,  \* VirtualScroll.estimatedItemHeight
    itemPadding,          \* VirtualScroll.itemPadding
    tree,                 \* FenwickTree.tree: the n + 1 accumulator slots
    styleHeight,          \* scrollContainer.style.height
    scrollTop,            \* windowContainer.scrollTop
    clientHeight,         \* windowContainer.clientHeight
    w,                    \* the weights the store stands for (reference copy)
    lastCall,             \* the method or event that ran last
    returned,             \* what it returned (<<>> for void)
    thrown,               \* the error it threw ("none" when it returned)
    activation,           \* the FenwickTree method that is running
    phase,                \* VirtualizedList: the lifecycle phase
    animationFrame,       \* VirtualizedList.animationFrame (0: undefined)
    pendingFrames,        \* the frame callbacks the window holds
    visibleItems,         \* VirtualizedList.visibleItems
    throttle,             \* the state of throttledUpdate's timer
    debounce,             \* the state of debouncedResize's timer
    listItems,            \* VirtualizedList.items, the prop
    rendered,             \* the item elements in the content element, in order
    observedElements,     \* VirtualizedList.observedElements
    observing,            \* the elements the ResizeObserver observes
    renderPending         \* the component is queued for a render

\* The component that owns an engine, and the window's timers and frames.
\* What render() and its ref callbacks keep: the elements and their registry.
domVars == <<rendered, observedElements, observing>>

componentVars == <<phase, animationFrame, pendingFrames, visibleItems,
                   throttle, debounce, listItems, domVars, renderPending>>

\* The variables outside the engine and its store.
hostVars == <<activation, componentVars>>

vars == <<items, estimatedItemHeight, itemPadding, tree, styleHeight,
          scrollTop, clientHeight, w, lastCall, returned, thrown, hostVars>>

\* The record of a FenwickTree call: the method, whether its loop is running
\* or it has returned, the index argument, the locals index, value and sum,
\* the slots as they were on entry, and the parity of the iterations done.
\* This one says that no method is running.
NoActivation ==
    [method |-> "none", pc |-> "done", arg |-> 0, index |-> 0, value |-> 0,
     sum |-> 0, entry |-> <<>>, parity |-> 0]

\* An engine or a store that no component owns: nothing is running and there
\* is no component.
HostIdle ==
    /\ activation = NoActivation
    /\ phase = "none"
    /\ animationFrame = 0
    /\ pendingFrames = {}
    /\ visibleItems = <<>>
    /\ throttle = "idle"
    /\ debounce = "idle"
    /\ listItems = <<>>
    /\ rendered = <<>>
    /\ observedElements = {}
    /\ observing = {}
    /\ renderPending = FALSE

---------------------------------------------------------------------------
(* Bounds of the model.                                                    *)

MaxN == 3

MaxScroll == 5

Heights == (0 - 1)..2

EstimatedHeights == {0 - 1, 1, 2}

Paddings == 0..1

ClientHeights == {0, 2}

Weights == (0 - 2)..2

Deltas == {0 - 2, 0 - 1, 1, 2}

---------------------------------------------------------------------------
(* FenwickTree                                                             *)

Max(a, b) == IF a >= b THEN a ELSE b

\* NaN, the number that arithmetic on undefined produces, stands as an integer
\* below every number the model computes with.
NaN == 0 - 1000000

\* a + b and a - b on JavaScript numbers: NaN when an operand is NaN.
Plus(a, b) == IF a = NaN \/ b = NaN THEN NaN ELSE a + b

Minus(a, b) == IF a = NaN \/ b = NaN THEN NaN ELSE a - b

\* tree[index] as a number: a read past the end of the array gives undefined,
\* which arithmetic turns into NaN.
Slot(t, index) == IF index + 1 \in DOMAIN t THEN t[index + 1] ELSE NaN

\* index & -index, for index > 0: the lowest set bit of index.
RECURSIVE LowBit(_)
LowBit(index) ==
    IF index % 2 = 1 THEN 1 ELSE 2 * LowBit(index \div 2)

\* index & -index for any integer: 0 for 0, and for a negative index the lowest
\* set bit of its absolute value (two's complement).
LowBitOf(index) ==
    IF index = 0 THEN 0
    ELSE LowBit(IF index < 0 THEN 0 - index ELSE index)

\* get length(): tree.length - 1
Length(t) == Len(t) - 1

\* A wrong update loop: it steps to the next slot instead of adding the lowest set bit.
RECURSIVE UpdateLoopNextSlot(_, _, _)
UpdateLoopNextSlot(t, index, value) ==
    IF index < Len(t)
    THEN UpdateLoopNextSlot([t EXCEPT ![index + 1] = @ + value], index + 1, value)
    ELSE t

\* The while loop of update, from the 1-based position index.
RECURSIVE UpdateLoop(_, _, _)
UpdateLoop(t, index, value) ==
    IF index < Len(t)
    THEN UpdateLoop([t EXCEPT ![index + 1] = @ + value],
                    index + LowBit(index), value)
    ELSE t

\* update(index, value): index++, then the loop.
Update(t, index, value) == UpdateLoop(t, index + 1, value)

\* The while loop of query, from the 1-based position index.
RECURSIVE QueryLoop(_, _, _)
QueryLoop(t, index, sum) ==
    IF index > 0
    THEN QueryLoop(t, index - LowBit(index), Plus(sum, Slot(t, index)))
    ELSE sum

\* query(index): sum = 0, index++, then the loop.
Query(t, index) == QueryLoop(t, index + 1, 0)

\* A wrong queryRange: it subtracts query(startIndex), dropping the first item.
QueryRangeFromStart(t, startIndex, endIndex) ==
    Minus(Query(t, endIndex), IF startIndex > 0 THEN Query(t, startIndex) ELSE 0)

\* queryRange(startIndex, endIndex)
QueryRange(t, startIndex, endIndex) ==
    Minus(Query(t, endIndex), IF startIndex > 0 THEN Query(t, startIndex - 1) ELSE 0)

\* The for loop of initFenwickTree: update(i, values[i]) for i = from .. to, in
\* ascending order.  The run is split in halves, and the first half is evaluated
\* before the second starts (update keeps the array's length, so the test is
\* always true), to keep the evaluation of 1000 updates shallow.
RECURSIVE InitLoop(_, _, _, _)
InitLoop(t, values, from, to) ==
    IF from > to THEN t
    ELSE IF from = to THEN Update(t, from, values[from + 1])
    ELSE LET mid  == (from + to) \div 2
             half == InitLoop(t, values, from, mid)
         IN  IF Len(half) = Len(t)
             THEN InitLoop(half, values, mid + 1, to)
             ELSE half

\* initFenwickTree(values): new Array(values.length + 1).fill(0), then the loop.
InitFenwickTree(values) ==
    InitLoop([k \in 1..(Len(values) + 1) |-> 0], values, 0, Len(values) - 1)

---------------------------------------------------------------------------
(* VirtualScroll                                                           *)

\* new Array(this.items.length).fill(this.estimatedItemHeight)
EstimatedHeightsOf(its, est) == [k \in 1..Len(its) |-> est]

\* initItemHeightData()
InitItemHeightData(its, est) == InitFenwickTree(EstimatedHeightsOf(its, est))

\* updateTotalHeight(): the template string `${totalHeight}px`.
TotalHeightStyle(t) == <<Query(t, Length(t) - 1), "px">>

\* this.items[i]; undefined outside the array.
ItemAt(its, i) == IF i \in 0..(Len(its) - 1) THEN its[i + 1] ELSE <<"undefined">>

\* A wrong search loop: it also moves right when midValue equals value.
RECURSIVE BinarySearchLoopRightOnTie(_, _, _, _)
BinarySearchLoopRightOnTie(t, lowIndex, highIndex, value) ==
    IF lowIndex < highIndex
    THEN LET midIndex == (lowIndex + highIndex) \div 2
             midValue == Query(t, midIndex)
         IN  IF midValue <= value
             THEN BinarySearchLoopRightOnTie(t, midIndex + 1, highIndex, value)
             ELSE BinarySearchLoopRightOnTie(t, lowIndex, midIndex, value)
    ELSE lowIndex

\* The while loop of binarySearch.
RECURSIVE BinarySearchLoop(_, _, _, _)
BinarySearchLoop(t, lowIndex, highIndex, value) ==
    IF lowIndex < highIndex
    THEN LET midIndex == (lowIndex + highIndex) \div 2
             midValue == Query(t, midIndex)
         IN  IF midValue < value
             THEN BinarySearchLoop(t, midIndex + 1, highIndex, value)
             ELSE BinarySearchLoop(t, lowIndex, midIndex, value)
    ELSE lowIndex

\* binarySearch(value)
BinarySearch(t, value) == BinarySearchLoop(t, 0, Length(t) - 1, value)

\* A wrong older loop: without the test for equality.
RECURSIVE OlderBinarySearchLoopWithoutEquality(_, _, _, _)
OlderBinarySearchLoopWithoutEquality(t, lowIndex, highIndex, value) ==
    IF lowIndex < highIndex
    THEN LET midIndex == (lowIndex + highIndex) \div 2
             midValue == Query(t, midIndex)
         IN  IF midValue < value
             THEN OlderBinarySearchLoopWithoutEquality(t, midIndex + 1, highIndex, value)
             ELSE OlderBinarySearchLoopWithoutEquality(t, lowIndex, midIndex, value)
    ELSE lowIndex - 1

\* The while loop of the older engine's binarySearch and its return: midIndex
\* when the prefix sum at midIndex equals value, and lowIndex - 1 after the loop.
RECURSIVE OlderBinarySearchLoop(_, _, _, _)
OlderBinarySearchLoop(t, lowIndex, highIndex, value) ==
    IF lowIndex < highIndex
    THEN LET midIndex == (lowIndex + highIndex) \div 2
             midValue == Query(t, midIndex)
         IN  IF midValue < value
             THEN OlderBinarySearchLoop(t, midIndex + 1, highIndex, value)
             ELSE IF midValue > value
             THEN OlderBinarySearchLoop(t, lowIndex, midIndex, value)
             ELSE midIndex
    ELSE lowIndex - 1

\* The older engine's binarySearch(value): highIndex starts at the length of
\* the slot array minus one, which is n.
OlderBinarySearch(t, value) == OlderBinarySearchLoop(t, 0, Len(t) - 1, value)

\* A wrong lower bound: it leaves out the padding.
LowerBoundWithoutPadding(est, top, padding) == Max(0, top)

\* lowerBound = Math.max(0, scrollTop - padding * this.estimatedItemHeight)
LowerBound(est, top, padding) == Max(0, top - padding * est)

\* A wrong upper bound: it leaves out the height of the window container.
UpperBoundWithoutClient(est, top, client, padding) == top + padding * est

\* upperBound = scrollTop + clientHeight + padding * this.estimatedItemHeight
UpperBound(est, top, client, padding) == top + client + padding * est

\* calculateVisibleItemsGenerator(padding), drained: the sequence it yields.
VisibleItems(t, its, est, top, client, padding) ==
    LET startIndex == BinarySearch(t, LowerBound(est, top, padding))
        endIndex   == BinarySearch(t, UpperBound(est, top, client, padding)) + 1
    IN  [k \in 1..(endIndex - startIndex) |->
            [item |-> ItemAt(its, startIndex + k - 1), index |-> startIndex + k - 1]]

\* A wrong updateItemData: it adds the height itself instead of the difference
\* to the current height.
UpdateItemDataTreeAddsHeight(t, index, height) == Update(t, index, height)

\* The store after updateItemData(index, height).
UpdateItemDataTree(t, index, height) ==
    Update(t, index, Minus(height, QueryRange(t, index, index)))

\* getItemData(index)
ItemData(t, index) ==
    [height |-> QueryRange(t, index, index), top |-> Query(t, index - 1)]

---------------------------------------------------------------------------
(* The engine as a state machine.                                          *)

N == Len(items)

Indices == 0..(N - 1)

\* The payloads of a list of n items (demo-list fills the list with 0 .. n-1).
ItemsOf(n) == [k \in 1..n |-> <<"item", k - 1>>]

\* new VirtualScroll(items, windowContainer, scrollContainer, est, padding)
Constructed(its, est, padding) ==
    /\ items = its
    /\ estimatedItemHeight = est
    /\ itemPadding = padding
    /\ tree = InitItemHeightData(its, est)
    /\ styleHeight = TotalHeightStyle(InitItemHeightData(its, est))
    /\ w = EstimatedHeightsOf(its, est)
    /\ lastCall = "constructor"
    /\ thrown = "none"
    /\ returned = <<>>

Init ==
    /\ \E n \in 0..MaxN, est \in EstimatedHeights, padding \in Paddings :
           Constructed(ItemsOf(n), est, padding)
    /\ HostIdle
    /\ scrollTop = 0
    /\ clientHeight \in ClientHeights

\* A wrong updateItemData: it leaves out the call of updateTotalHeight.
UpdateItemDataStaleTotal(index, height) ==
    /\ tree' = UpdateItemDataTree(tree, index, height)
    /\ w' = [w EXCEPT ![index + 1] = height]
    /\ lastCall' = "updateItemData"
    /\ thrown' = "none"
    /\ UNCHANGED hostVars
    /\ returned' = <<>>
    /\ UNCHANGED <<items, estimatedItemHeight, itemPadding, styleHeight,
                   scrollTop, clientHeight>>

\* updateItemData(index, height)
UpdateItemData(index, height) ==
    /\ tree' = UpdateItemDataTree(tree, index, height)
    /\ styleHeight' = TotalHeightStyle(tree')
    /\ w' = [w EXCEPT ![index + 1] = height]
    /\ lastCall' = "updateItemData"
    /\ thrown' = "none"
    /\ UNCHANGED hostVars
    /\ returned' = <<>>
    /\ UNCHANGED <<items, estimatedItemHeight, itemPadding, scrollTop, clientHeight>>

\* A wrong calculateVisibleItemsGenerator: it rewinds the window container to
\* the top once it has yielded the items.
CalculateVisibleItemsRewinds ==
    /\ returned' = VisibleItems(tree, items, estimatedItemHeight,
                                scrollTop, clientHeight, itemPadding)
    /\ scrollTop' = 0
    /\ lastCall' = "calculateVisibleItemsGenerator"
    /\ thrown' = "none"
    /\ UNCHANGED hostVars
    /\ UNCHANGED <<items, estimatedItemHeight, itemPadding, tree, styleHeight,
                   clientHeight, w>>

\* Array.from(calculateVisibleItemsGenerator()) with the default padding.
CalculateVisibleItems ==
    /\ returned' = VisibleItems(tree, items, estimatedItemHeight,
                                scrollTop, clientHeight, itemPadding)
    /\ lastCall' = "calculateVisibleItemsGenerator"
    /\ thrown' = "none"
    /\ UNCHANGED hostVars
    /\ UNCHANGED <<items, estimatedItemHeight, itemPadding, tree, styleHeight,
                   scrollTop, clientHeight, w>>

\* getItemData(index)
GetItemData(index) ==
    /\ returned' = ItemData(tree, index)
    /\ lastCall' = "getItemData"
    /\ thrown' = "none"
    /\ UNCHANGED hostVars
    /\ UNCHANGED <<items, estimatedItemHeight, itemPadding, tree, styleHeight,
                   scrollTop, clientHeight, w>>

\* The user scrolls the window container.
Scroll(top) ==
    /\ top # scrollTop
    /\ scrollTop' = top
    /\ lastCall' = "scroll"
    /\ thrown' = "none"
    /\ UNCHANGED hostVars
    /\ returned' = <<>>
    /\ UNCHANGED <<items, estimatedItemHeight, itemPadding, tree, styleHeight,
                   clientHeight, w>>

\* The window container is resized.
Resize(client) ==
    /\ client # clientHeight
    /\ clientHeight' = client
    /\ lastCall' = "resize"
    /\ thrown' = "none"
    /\ UNCHANGED hostVars
    /\ returned' = <<>>
    /\ UNCHANGED <<items, estimatedItemHeight, itemPadding, tree, styleHeight,
                   scrollTop, w>>

Next ==
    \/ \E index \in Indices, height \in Heights : UpdateItemData(index, height)
    \/ CalculateVisibleItems
    \/ \E index \in Indices : GetItemData(index)
    \/ \E top \in 0..MaxScroll : Scroll(top)
    \/ \E client \in ClientHeights : Resize(client)

Spec == Init /\ [][Next]_vars

\* The engine without its window container: height updates and position
\* queries only, from the same initial states.
HeightsNext ==
    \/ \E index \in Indices, height \in Heights : UpdateItemData(index, height)
    \/ \E index \in Indices : GetItemData(index)

SpecHeights == Init /\ [][HeightsNext]_vars

\* The index arguments a caller can pass: the indices of the items and those
\* on either side of them.
AnyIndices == (0 - 2)..(MaxN + 1)

\* The engine with position queries for any index: height updates of the
\* items, and getItemData(index) for indices inside and outside 0 .. n-1.
RangeNext ==
    \/ \E index \in Indices, height \in Heights : UpdateItemData(index, height)
    \/ \E index \in AnyIndices : GetItemData(index)

SpecRange == Init /\ [][RangeNext]_vars

---------------------------------------------------------------------------
(* The store on its own: any initial weights, then update, query and       *)
(* queryRange calls.  The engine's variables keep the values of an empty   *)
(* engine.                                                                 *)

\* new FenwickTree(values)
FenwickInit ==
    /\ \E n \in 0..MaxN : \E values \in [1..n -> Weights] :
           /\ tree = InitFenwickTree(values)
           /\ w = values
    /\ items = <<>>
    /\ estimatedItemHeight = 0
    /\ itemPadding = 0
    /\ styleHeight = <<0, "px">>
    /\ scrollTop = 0
    /\ clientHeight = 0
    /\ lastCall = "constructor"
    /\ thrown = "none"
    /\ HostIdle
    /\ returned = <<>>

\* update(index, value), the weight kept within Weights
FenwickUpdate(index, value) ==
    /\ w[index + 1] + value \in Weights
    /\ tree' = Update(tree, index, value)
    /\ w' = [w EXCEPT ![index + 1] = @ + value]
    /\ lastCall' = "update"
    /\ thrown' = "none"
    /\ UNCHANGED hostVars
    /\ returned' = <<>>
    /\ UNCHANGED <<items, estimatedItemHeight, itemPadding, styleHeight,
                   scrollTop, clientHeight>>

\* query(index)
FenwickQuery(index) ==
    /\ returned' = <<index, Query(tree, index)>>
    /\ lastCall' = "query"
    /\ thrown' = "none"
    /\ UNCHANGED hostVars
    /\ UNCHANGED <<items, estimatedItemHeight, itemPadding, tree, styleHeight,
                   scrollTop, clientHeight, w>>

\* queryRange(startIndex, endIndex)
FenwickQueryRange(startIndex, endIndex) ==
    /\ returned' = <<startIndex, endIndex, QueryRange(tree, startIndex, endIndex)>>
    /\ lastCall' = "queryRange"
    /\ thrown' = "none"
    /\ UNCHANGED hostVars
    /\ UNCHANGED <<items, estimatedItemHeight, itemPadding, tree, styleHeight,
                   scrollTop, clientHeight, w>>

FenwickNext ==
    \/ \E index \in 0..(Length(tree) - 1), value \in Deltas : FenwickUpdate(index, value)
    \/ \E index \in (0 - 1)..(Length(tree) - 1) : FenwickQuery(index)
    \/ \E startIndex \in 0..(Length(tree) - 1) :
           \E endIndex \in startIndex..(Length(tree) - 1) :
               FenwickQueryRange(startIndex, endIndex)

SpecFenwick == FenwickInit /\ [][FenwickNext]_vars

---------------------------------------------------------------------------
(* The store's loops, one iteration at a time: update and query are called  *)
(* with any integer index, each step runs one iteration of the method's    *)
(* while loop, and the method returns when the loop condition fails.       *)

MaxSlot == 4

CallValues == {0 - 1, 0, 1}

\* No slot is about to leave the range of slot values of the model.
WithinSlots(index, value) ==
    index + 1 \in DOMAIN tree =>
        (tree[index + 1] + value <= MaxSlot /\ tree[index + 1] + value >= 0 - MaxSlot)

\* A call may start when no method is running.
NothingRunning == activation.pc = "done"

\* update(index, value) is entered: index++.
CallUpdate(index, value) ==
    /\ NothingRunning
    /\ index \in 0..(Length(tree) - 1) => w[index + 1] + value \in Weights
    /\ activation' = [method |-> "update", pc |-> "loop", arg |-> index,
                      index |-> index + 1, value |-> value, sum |-> 0,
                      entry |-> tree, parity |-> 0]
    /\ lastCall' = "update"
    /\ returned' = <<>>
    /\ thrown' = "none"
    /\ UNCHANGED <<items, estimatedItemHeight, itemPadding, tree, styleHeight,
                   scrollTop, clientHeight, w, componentVars>>

\* One iteration of the loop of update: tree[index] += value, then
\* index += index & -index.  A write at a negative index adds a property to
\* the array object and changes no slot.
UpdateStep ==
    /\ activation.method = "update"
    /\ activation.pc = "loop"
    /\ activation.index < Len(tree)
    /\ WithinSlots(activation.index, activation.value)
    /\ tree' = IF activation.index + 1 \in DOMAIN tree
               THEN [tree EXCEPT ![activation.index + 1] = @ + activation.value]
               ELSE tree
    /\ activation' = [activation EXCEPT
                          !.index = @ + LowBitOf(@),
                          !.parity = 1 - @]
    /\ UNCHANGED <<items, estimatedItemHeight, itemPadding, styleHeight,
                   scrollTop, clientHeight, w, lastCall, returned, thrown,
                   componentVars>>

\* The loop condition of update fails: the method returns undefined.
UpdateReturn ==
    /\ activation.method = "update"
    /\ activation.pc = "loop"
    /\ ~(activation.index < Len(tree))
    /\ activation' = [activation EXCEPT !.pc = "done"]
    /\ w' = IF activation.arg + 1 \in DOMAIN w
            THEN [w EXCEPT ![activation.arg + 1] = @ + activation.value]
            ELSE w
    /\ UNCHANGED <<items, estimatedItemHeight, itemPadding, tree, styleHeight,
                   scrollTop, clientHeight, lastCall, returned, thrown,
                   componentVars>>

\* query(index) is entered: sum = 0, index++.
CallQuery(index) ==
    /\ NothingRunning
    /\ activation' = [method |-> "query", pc |-> "loop", arg |-> index,
                      index |-> index + 1, value |-> 0, sum |-> 0,
                      entry |-> tree, parity |-> 0]
    /\ lastCall' = "query"
    /\ returned' = <<>>
    /\ thrown' = "none"
    /\ UNCHANGED <<items, estimatedItemHeight, itemPadding, tree, styleHeight,
                   scrollTop, clientHeight, w, componentVars>>

\* One iteration of the loop of query: sum += tree[index], then
\* index -= index & -index.
QueryStep ==
    /\ activation.method = "query"
    /\ activation.pc = "loop"
    /\ activation.index > 0
    /\ activation' = [activation EXCEPT
                          !.sum = Plus(@, Slot(tree, activation.index)),
                          !.index = @ - LowBitOf(@),
                          !.parity = 1 - @]
    /\ UNCHANGED <<items, estimatedItemHeight, itemPadding, tree, styleHeight,
                   scrollTop, clientHeight, w, lastCall, returned, thrown,
                   componentVars>>

\* The loop condition of query fails: the method returns sum.
QueryReturn ==
    /\ activation.method = "query"
    /\ activation.pc = "loop"
    /\ ~(activation.index > 0)
    /\ activation' = [activation EXCEPT !.pc = "done"]
    /\ returned' = <<activation.arg, activation.sum>>
    /\ UNCHANGED <<items, estimatedItemHeight, itemPadding, tree, styleHeight,
                   scrollTop, clientHeight, w, lastCall, thrown, componentVars>>

\* The running method takes its next step.
Running == UpdateStep \/ UpdateReturn \/ QueryStep \/ QueryReturn

CallsNext ==
    \/ \E index \in AnyIndices, value \in CallValues : CallUpdate(index, value)
    \/ \E index \in AnyIndices : CallQuery(index)
    \/ UpdateStep
    \/ UpdateReturn
    \/ QueryStep
    \/ QueryReturn

SpecCalls == FenwickInit /\ [][CallsNext]_vars

\* A method that was entered keeps running: JavaScript runs it to completion
\* without suspending it.
SpecCallsFair == SpecCalls /\ WF_vars(Running)

---------------------------------------------------------------------------
(* VirtualizedList: the component that owns one engine, renders the items  *)
(* it yields, and recomputes them in an animation frame after a scroll, a  *)
(* window resize or a change of the items prop.  Every event handler runs  *)
(* to completion.                                                          *)

MaxItems == 2

\* The arrays the page can pass as the items prop.
ListArrays ==
    {[k \in 1..n |-> <<tag, k - 1>>] : n \in 0..MaxItems, tag \in {"item", "other"}}

ComponentEstimates == {1, 2}

ComponentClientHeights == {1, 2}

\* The handle requestAnimationFrame returns: the least positive integer that
\* no pending callback holds.
NewHandle ==
    CHOOSE id \in 1..(Cardinality(pendingFrames) + 1) :
        /\ id \notin pendingFrames
        /\ \A j \in 1..(id - 1) : j \in pendingFrames

\* A wrong scheduleUpdate: it requests a frame without looking at animationFrame.
ScheduleUpdateUnguarded ==
    /\ animationFrame' = NewHandle
    /\ pendingFrames' = pendingFrames \cup {NewHandle}

\* scheduleUpdate()
ScheduleUpdate ==
    IF animationFrame = 0
    THEN /\ animationFrame' = NewHandle
         /\ pendingFrames' = pendingFrames \cup {NewHandle}
    ELSE UNCHANGED <<animationFrame, pendingFrames>>

\* A wrong updateVirtualScroll: it keeps the engine it has, as it keeps the
\* two container elements.
UpdateVirtualScrollKeepsEngine ==
    UNCHANGED <<items, tree, styleHeight, w, estimatedItemHeight, itemPadding>>

\* updateVirtualScroll(): a new engine for this.items, with the two props.
UpdateVirtualScroll ==
    /\ items' = listItems'
    /\ tree' = InitItemHeightData(listItems', estimatedItemHeight)
    /\ styleHeight' = TotalHeightStyle(tree')
    /\ w' = EstimatedHeightsOf(listItems', estimatedItemHeight)
    /\ UNCHANGED <<estimatedItemHeight, itemPadding>>

\* The handler or callback name ran to its end without throwing.
Handled(name) ==
    /\ lastCall' = name
    /\ returned' = <<>>
    /\ thrown' = "none"
    /\ UNCHANGED activation

\* The component after componentWillLoad and componentDidLoad: the engine is
\* built for the items prop and the first frame is requested.
ComponentInit ==
    /\ \E its \in ListArrays, est \in ComponentEstimates, padding \in Paddings :
           /\ its # <<>> => its[1][1] = "item"
           /\ listItems = its
           /\ Constructed(its, est, padding)
    /\ scrollTop = 0
    /\ clientHeight \in ComponentClientHeights
    /\ activation = NoActivation
    /\ phase = "loaded"
    /\ animationFrame = 1
    /\ pendingFrames = {1}
    /\ visibleItems = <<>>
    /\ throttle = "idle"
    /\ debounce = "idle"
    /\ rendered = <<>>
    /\ observedElements = {}
    /\ observing = {}
    /\ renderPending = FALSE

\* How far the window element can be scrolled.
MaxScrollTop == Max(0, styleHeight[1] - clientHeight)

\* The user scrolls the window element: onScroll calls throttledUpdate, which
\* calls scheduleUpdate at once when its timer is not running and otherwise
\* keeps the call for the timer.
ScrollEvent(top) ==
    /\ phase # "disconnected"
    /\ top # scrollTop
    /\ top <= MaxScrollTop
    /\ scrollTop' = top
    /\ IF throttle = "idle"
       THEN /\ ScheduleUpdate
            /\ throttle' = "waiting"
       ELSE /\ throttle' = "trailing"
            /\ UNCHANGED <<animationFrame, pendingFrames>>
    /\ Handled("onScroll")
    /\ UNCHANGED <<items, estimatedItemHeight, itemPadding, tree, styleHeight,
                   clientHeight, w, phase, visibleItems, debounce, listItems>>
    /\ UNCHANGED <<domVars, renderPending>>

\* The timer of throttledUpdate expires: a call it kept is made now.
ThrottleTimer ==
    /\ throttle # "idle"
    /\ IF throttle = "trailing"
       THEN /\ ScheduleUpdate
            /\ throttle' = "waiting"
       ELSE /\ throttle' = "idle"
            /\ UNCHANGED <<animationFrame, pendingFrames>>
    /\ Handled("throttleTimer")
    /\ UNCHANGED <<items, estimatedItemHeight, itemPadding, tree, styleHeight,
                   scrollTop, clientHeight, w, phase, visibleItems, debounce,
                   listItems>>
    /\ UNCHANGED <<domVars, renderPending>>

\* The window is resized: the listener added by componentWillLoad, while it is
\* attached, restarts the timer of debouncedResize.
ResizeEvent(client) ==
    /\ phase # "disconnected"
    /\ client # clientHeight
    /\ clientHeight' = client
    /\ debounce' = IF phase = "loaded" THEN "waiting" ELSE debounce
    /\ Handled("resize")
    /\ UNCHANGED <<items, estimatedItemHeight, itemPadding, tree, styleHeight,
                   scrollTop, w, phase, animationFrame, pendingFrames,
                   visibleItems, throttle, listItems>>
    /\ UNCHANGED <<domVars, renderPending>>

\* The timer of debouncedResize expires: scheduleUpdate is called.
DebounceTimer ==
    /\ debounce = "waiting"
    /\ debounce' = "idle"
    /\ ScheduleUpdate
    /\ Handled("debounceTimer")
    /\ UNCHANGED <<items, estimatedItemHeight, itemPadding, tree, styleHeight,
                   scrollTop, clientHeight, w, phase, visibleItems, throttle,
                   listItems>>
    /\ UNCHANGED <<domVars, renderPending>>

\* The page sets the items prop to another array: itemsChanged calls
\* scheduleUpdate and then updateVirtualScroll.
ItemsChanged(newValue) ==
    /\ newValue # listItems
    /\ listItems' = newValue
    /\ ScheduleUpdate
    /\ UpdateVirtualScroll
    /\ Handled("itemsChanged")
    /\ UNCHANGED <<scrollTop, clientHeight, phase, visibleItems, throttle,
                   debounce>>
    /\ renderPending' = TRUE
    /\ UNCHANGED domVars

\* processVisibleItems()
ProcessVisibleItems ==
    visibleItems' = VisibleItems(tree, items, estimatedItemHeight,
                                 scrollTop, clientHeight, itemPadding)

\* The window runs a pending frame callback: processVisibleItems, then
\* animationFrame = undefined.
FrameFire ==
    /\ \E id \in pendingFrames : pendingFrames' = pendingFrames \ {id}
    /\ ProcessVisibleItems
    /\ animationFrame' = 0
    /\ Handled("frame")
    /\ UNCHANGED <<items, estimatedItemHeight, itemPadding, tree, styleHeight,
                   scrollTop, clientHeight, w, phase, throttle, debounce,
                   listItems>>
    /\ renderPending' = TRUE
    /\ UNCHANGED domVars

\* The registry and the observer after the ref callback of the item element for
\* index ran with el (0: null).  reg is [observedElements, observing]; an entry
\* of observedElements is <<index, element>>.
RefCallback(reg, index, el) ==
    LET has == \E e \in reg.observedElements : e[1] = index
    IN  IF el # 0 /\ ~has
        THEN [observedElements |-> reg.observedElements \cup {<<index, el>>},
              observing |-> reg.observing \cup {el}]
        ELSE IF has
             THEN LET element == CHOOSE e \in reg.observedElements : e[1] = index
                  IN  [observedElements |-> reg.observedElements \ {element},
                       observing |-> reg.observing \ {element[2]}]
             ELSE reg

\* The ref callbacks of one render, in order; a call is <<index, el>>.
RECURSIVE RefCallbacks(_, _)
RefCallbacks(reg, calls) ==
    IF calls = <<>>
    THEN reg
    ELSE RefCallbacks(RefCallback(reg, calls[1][1], calls[1][2]), Tail(calls))

\* The calls of a render that replaces the item elements for old by those for
\* new.  The elements have no key, so the element at a position is kept for
\* the item now at that position and the ref callback of the new render runs
\* with it; an element past the end of new is removed and the ref callback of
\* the render that made it runs with null.  An element is named by its position.
RefCalls(old, new) ==
    [k \in 1..Len(new) |-> <<new[k].index, k>>]
        \o [k \in 1..Max(0, Len(old) - Len(new)) |->
               <<old[Len(new) + k].index, 0>>]

\* The top render() gives an item: getItemData(index).top || 0.
RenderedTop(t, index) ==
    LET top == ItemData(t, index).top
    IN  IF top = NaN THEN 0 ELSE top

\* render(), run by the framework for a component whose prop or state changed,
\* and the ref callbacks the framework calls for it.
Render ==
    /\ phase # "disconnected"
    /\ renderPending
    /\ renderPending' = FALSE
    /\ rendered' = [k \in 1..Len(visibleItems) |->
                       [index |-> visibleItems[k].index,
                        top |-> RenderedTop(tree, visibleItems[k].index)]]
    /\ LET reg == RefCallbacks([observedElements |-> observedElements,
                                observing |-> observing],
                               RefCalls(rendered, rendered'))
       IN  /\ observedElements' = reg.observedElements
           /\ observing' = reg.observing
    /\ Handled("render")
    /\ UNCHANGED <<items, estimatedItemHeight, itemPadding, tree, styleHeight,
                   scrollTop, clientHeight, w, phase, animationFrame,
                   pendingFrames, visibleItems, throttle, debounce, listItems>>

\* The ResizeObserver reports the size of a rendered item: the callback calls
\* virtualScroll.updateItemHeight, a method the engine does not have, so the
\* call throws a TypeError and the engine is left as it was.
ItemResized ==
    /\ phase # "disconnected"
    /\ observing # {}
    /\ lastCall' = "resizeObserver"
    /\ returned' = <<>>
    /\ thrown' = "TypeError"
    /\ UNCHANGED <<items, estimatedItemHeight, itemPadding, tree, styleHeight,
                   scrollTop, clientHeight, w, hostVars>>

\* disconnectedCallback(): the resize listener is removed, the frame that
\* animationFrame names is cancelled and the observer is disconnected;
\* animationFrame and observedElements keep their values.
Disconnect ==
    /\ phase # "disconnected"
    /\ phase' = "disconnected"
    /\ pendingFrames' = IF animationFrame # 0
                        THEN pendingFrames \ {animationFrame}
                        ELSE pendingFrames
    /\ Handled("disconnectedCallback")
    /\ UNCHANGED <<items, estimatedItemHeight, itemPadding, tree, styleHeight,
                   scrollTop, clientHeight, w, animationFrame, visibleItems,
                   throttle, debounce, listItems>>
    /\ observing' = {}
    /\ UNCHANGED <<rendered, observedElements, renderPending>>

\* The element is attached to a document again.  The component has no
\* connectedCallback, and componentWillLoad and componentDidLoad run once only.
Connect ==
    /\ phase = "disconnected"
    /\ phase' = "reconnected"
    /\ Handled("connectedCallback")
    /\ UNCHANGED <<items, estimatedItemHeight, itemPadding, tree, styleHeight,
                   scrollTop, clientHeight, w, animationFrame, pendingFrames,
                   visibleItems, throttle, debounce, listItems>>
    /\ UNCHANGED <<domVars, renderPending>>

ComponentNext ==
    \/ \E top \in 0..MaxScroll : ScrollEvent(top)
    \/ ThrottleTimer
    \/ \E client \in ComponentClientHeights : ResizeEvent(client)
    \/ DebounceTimer
    \/ \E newValue \in ListArrays : ItemsChanged(newValue)
    \/ FrameFire
    \/ Disconnect
    \/ Connect

\* The component's events, timers and frames; its renders are left out, so
\* nothing is rendered and the observer has nothing to report.
SpecComponent == ComponentInit /\ [][ComponentNext]_vars

\* The component with its renders and its observer, in a window that keeps
\* its size.
RenderNext ==
    \/ \E top \in 0..MaxScroll : ScrollEvent(top)
    \/ ThrottleTimer
    \/ \E newValue \in ListArrays : ItemsChanged(newValue)
    \/ FrameFire
    \/ Render
    \/ ItemResized
    \/ Disconnect
    \/ Connect

SpecRender == ComponentInit /\ [][RenderNext]_vars

\* The window runs every frame callback that stays pending.
SpecComponentFair == SpecComponent /\ WF_vars(FrameFire)

---------------------------------------------------------------------------
(* The demo list: 1000 items with the default estimate and padding.        *)

ItemCount == 1000

DefaultEstimatedItemHeight == 50

DefaultItemPadding == 5

ScenarioScrollTops == {250 * k : k \in 0..8}

ScenarioClientHeights == {0, 500, 1000}

ScenarioIndices == {0, 1}

ScenarioHeights == {20, 50}

ScenarioInit ==
    /\ Constructed(ItemsOf(ItemCount), DefaultEstimatedItemHeight, DefaultItemPadding)
    /\ scrollTop = 0
    /\ clientHeight \in ScenarioClientHeights
    /\ HostIdle

ScenarioNext ==
    \/ \E index \in ScenarioIndices, height \in ScenarioHeights :
           UpdateItemData(index, height)
    \/ CalculateVisibleItems
    \/ \E index \in ScenarioIndices : GetItemData(index)
    \/ \E top \in ScenarioScrollTops : Scroll(top)
    \/ \E client \in ScenarioClientHeights : Resize(client)

SpecScenario == ScenarioInit /\ [][ScenarioNext]_vars

---------------------------------------------------------------------------
(* Reference definitions used by the properties.                           *)

\* ws[lo] + ... + ws[hi] of the 0-based weights, summed one by one.
RECURSIVE NaiveSum(_, _, _)
NaiveSum(ws, lo, hi) ==
    IF lo > hi THEN 0 ELSE ws[hi + 1] + NaiveSum(ws, lo, hi - 1)

\* The indices a drained generator yielded, in order.
YieldedIndices(ys) == [k \in 1..Len(ys) |-> ys[k].index]

\* The set of them.
YieldedSet(ys) == {ys[k].index : k \in 1..Len(ys)}

\* The ascending run from .. to as a sequence.
Run(from, to) == [k \in 1..(to - from + 1) |-> from + k - 1]

Top(i) == Query(tree, i - 1)

Height(i) == QueryRange(tree, i, i)

AllHeightsNonNegative == \A i \in Indices : Height(i) >= 0

---------------------------------------------------------------------------
(* Properties of the store (checked under SpecFenwick).                    *)

\* C1: after construction from any weights and after every in-range update,
\* query(i) is the naive sum w[0] + ... + w[i] of the current weights, for
\* every i in [0, n).
PrefixSumCorrect ==
    /\ Len(w) = Length(tree)
    /\ \A i \in 0..(Length(tree) - 1) : Query(tree, i) = NaiveSum(w, 0, i)

\* An update has run on a store of MaxN items whose weights are not all equal
\* and whose last prefix sum is not zero.
PrefixSumWitness ==
    /\ lastCall = "update"
    /\ Length(tree) = MaxN
    /\ w[1] # w[2]
    /\ Query(tree, MaxN - 1) # 0

\* C2: for every 0 <= lo <= hi < n, queryRange(lo, hi) is the sum of the
\* current weights w[lo..hi], which is query(hi) - query(lo - 1) with
\* query(-1) = 0; queryRange(i, i) is the current weight of item i.
RangeSumCorrect ==
    /\ Query(tree, 0 - 1) = 0
    /\ \A lo \in 0..(Length(tree) - 1) : \A hi \in lo..(Length(tree) - 1) :
           /\ QueryRange(tree, lo, hi) = NaiveSum(w, lo, hi)
           /\ QueryRange(tree, lo, hi) = Query(tree, hi) - Query(tree, lo - 1)
    /\ \A i \in 0..(Length(tree) - 1) : QueryRange(tree, i, i) = w[i + 1]

\* queryRange(lo, hi) with 0 < lo < hi has returned a non-zero sum after an
\* update changed the weights.
RangeSumWitness ==
    /\ lastCall = "queryRange"
    /\ returned[1] > 0
    /\ returned[2] > returned[1]
    /\ returned[3] # 0
    /\ w[returned[1] + 1] # w[returned[2] + 1]

---------------------------------------------------------------------------
(* Properties of the engine (checked under Spec).                          *)

\* The values a search is asked for: from below zero to beyond the total.
SearchValues == (0 - 1)..(Query(tree, N - 1) + 1)

\* The smallest index in [0, n-1] whose prefix sum is at least value, and n-1
\* when there is none.
LowerIndexAtOrAbove(value) ==
    LET atOrAbove == {i \in Indices : Query(tree, i) >= value}
    IN  IF atOrAbove = {} THEN N - 1
        ELSE CHOOSE i \in atOrAbove : \A j \in atOrAbove : i <= j

TouchesViewport(i) ==
    /\ Top(i) <= scrollTop + clientHeight
    /\ Top(i) + Height(i) >= scrollTop

\* Item i starts above the viewport's bottom edge and ends at or below its top edge.
InsideViewport(i) ==
    /\ Top(i) < scrollTop + clientHeight
    /\ Top(i) + Height(i) >= scrollTop

EmptyEngineYieldsNothing ==
    (N = 0 /\ estimatedItemHeight > 0) =>
        /\ styleHeight = <<0, "px">>
        /\ lastCall = "calculateVisibleItemsGenerator" => returned = <<>>

---------------------------------------------------------------------------
(* Scenario A (checked under SpecScenario).                                *)

NoHeightUpdates == w = EstimatedHeightsOf(items, estimatedItemHeight)

ScenarioA ==
    /\ lastCall = "calculateVisibleItemsGenerator"
    /\ NoHeightUpdates
    /\ scrollTop = 1000
    /\ clientHeight = 500

ScenarioB ==
    (N = ItemCount /\ w = [EstimatedHeightsOf(items, 50) EXCEPT ![1] = 20]) =>
        /\ ItemData(tree, 1) = [height |-> 50, top |-> 20]
        /\ styleHeight = <<49970, "px">>

---------------------------------------------------------------------------
(* Height updates (C7 and C8 checked under SpecHeights, C9 and C10 under    *)
(* Spec).                                                                  *)

\* The step is the call updateItemData(i, h) (the two cheap tests first).
IsUpdateItemData(i, h) ==
    /\ lastCall' = "updateItemData"
    /\ w' = [w EXCEPT ![i + 1] = h]
    /\ UpdateItemData(i, h)

\* What updateItemData(i, h) on the current state must leave behind.
UpdatePostcondition(i, h) ==
    LET delta == h - Height(i)
    IN  /\ ItemData(tree', i).height = h
        /\ ItemData(tree', i).top = Top(i)
        /\ \A j \in Indices :
               /\ j < i => ItemData(tree', j) = ItemData(tree, j)
               /\ j > i => /\ ItemData(tree', j).height = Height(j)
                           /\ ItemData(tree', j).top = Top(j) + delta
        /\ styleHeight' = <<styleHeight[1] + delta, "px">>

\* C7: for every in-range index i and height h >= 0, after updateItemData(i, h)
\* getItemData(i).height is h, height and top of every item before i are
\* unchanged, every item after i keeps its height and its top moves by h minus
\* the old height of i, and the total extent changes by the same amount.
UpdateMovesLaterItems ==
    [][\A i \in Indices, h \in Heights :
           (h >= 0 /\ IsUpdateItemData(i, h)) => UpdatePostcondition(i, h)]_vars

\* An update has changed the height of the middle one of MaxN items to a
\* non-negative value other than the estimate.
UpdateWitness ==
    /\ lastCall = "updateItemData"
    /\ N = MaxN
    /\ Height(1) >= 0
    /\ Height(1) # estimatedItemHeight
    /\ Height(0) = estimatedItemHeight
    /\ Height(2) = estimatedItemHeight

\* C8: calling updateItemData(i, h) a second time right after the first leaves
\* every accumulator slot and the published total height as the first call
\* left them.
UpdateIdempotent ==
    [][\A i \in Indices, h \in Heights :
           IsUpdateItemData(i, h) =>
               /\ UpdateItemDataTree(tree', i, h) = tree'
               /\ TotalHeightStyle(UpdateItemDataTree(tree', i, h)) = styleHeight']_vars

\* An update has changed the height of the last item, so that no height equals
\* the estimate any more.
UpdateIdempotentWitness ==
    /\ lastCall = "updateItemData"
    /\ N >= 2
    /\ \A i \in Indices : Height(i) # estimatedItemHeight
    /\ tree # InitItemHeightData(items, estimatedItemHeight)

\* C9: in every reachable state the published total extent is query(n-1), the
\* sum of all current item heights, and is 0 when n = 0.
TotalExtentIsSum ==
    /\ styleHeight = <<Query(tree, N - 1), "px">>
    /\ styleHeight[1] = NaiveSum(w, 0, N - 1)
    /\ N = 0 => styleHeight[1] = 0

\* After an update the published total differs from the total of the estimates.
TotalExtentWitness ==
    /\ lastCall = "updateItemData"
    /\ N = MaxN
    /\ styleHeight[1] # N * estimatedItemHeight
    /\ styleHeight[1] > 0

\* C10 as claimed: whatever heights the updates were called with, every item's
\* height queryRange(i, i) is >= 0 and the prefix sums are non-decreasing
\* (stated here for engines built with a non-negative estimate).
HeightsStayNonNegative ==
    estimatedItemHeight >= 0 =>
        /\ \A i \in Indices : QueryRange(tree, i, i) >= 0
        /\ \A i \in Indices : i > 0 => Query(tree, i - 1) <= Query(tree, i)

---------------------------------------------------------------------------
(* Rejected inputs.  A call that is rejected throws and changes nothing.   *)

\* C11 as claimed: updateItemData(i, h) with a negative h reports an error and
\* leaves every accumulator slot and the published total extent unchanged.
NegativeHeightRejected ==
    [][\A i \in Indices, h \in Heights :
           (h < 0 /\ estimatedItemHeight >= 0 /\ IsUpdateItemData(i, h)) =>
               /\ thrown' # "none"
               /\ tree' = tree
               /\ styleHeight' = styleHeight]_vars

\* A step that is the call getItemData(index).
IsGetItemData(index) ==
    /\ lastCall' = "getItemData"
    /\ GetItemData(index)

\* C12 as claimed: getItemData(index) with index outside 0 .. n-1 throws a
\* range error instead of returning a position, and leaves the store unchanged
\* (stated here for engines with at least one item and a positive estimate).
GetItemDataRangeChecked ==
    [][\A index \in AnyIndices \ Indices :
           (N >= 1 /\ estimatedItemHeight > 0 /\ IsGetItemData(index)) =>
               /\ thrown' = "RangeError"
               /\ tree' = tree]_vars

\* getItemData has returned a position for an index past the last item: its
\* height is NaN and its top is the total of the heights.
GetItemDataPastEnd ==
    /\ lastCall = "getItemData"
    /\ N >= 1
    /\ estimatedItemHeight > 0
    /\ returned.height = NaN
    /\ returned.top = Query(tree, N - 1)

\* The running or last FenwickTree call was given an index outside 0 .. n-1.
CalledOutOfRange == activation.arg \notin 0..(Length(tree) - 1)

\* C13 as claimed: update(index, delta) with index outside 0 .. n-1 changes no
\* accumulator slot at any point of the call, and ends by throwing.
UpdateOutOfRangeFails ==
    (activation.method = "update" /\ CalledOutOfRange) =>
        /\ tree = activation.entry
        /\ activation.pc = "done" => thrown # "none"

\* No step is held back by the bound on the slot values.
AtSlotBound ==
    /\ activation.method = "update"
    /\ activation.pc = "loop"
    /\ activation.index < Len(tree)
    /\ ~WithinSlots(activation.index, activation.value)

\* C14 as claimed: every call of update and of query that is entered, with an
\* index inside or outside 0 .. n-1, returns (or, in this model, runs into the
\* bound on the slot values).
CallsTerminate ==
    (activation.pc = "loop") ~> (activation.pc = "done" \/ AtSlotBound)

\* The part of C14 that holds: every call of query returns.
QueryTerminates ==
    (activation.pc = "loop" /\ activation.method = "query") ~> (activation.pc = "done")

\* C15 as claimed: no engine exists that was constructed with a negative
\* estimated item height or a negative padding: such a construction throws.
ConstructionValidated ==
    (estimatedItemHeight < 0 \/ itemPadding < 0) => thrown # "none"

---------------------------------------------------------------------------
(* Queries.                                                                *)

OverlapsViewport(i) ==
    /\ Top(i) < scrollTop + clientHeight
    /\ Top(i) + Height(i) > scrollTop

Min(a, b) == IF a <= b THEN a ELSE b

\* The least and the greatest member of a non-empty set of numbers.
Least(S) == CHOOSE x \in S : \A y \in S : x <= y

Greatest(S) == CHOOSE x \in S : \A y \in S : x >= y

\* C17 as claimed: whenever an item overlaps the viewport, the yielded range
\* holds itemPadding items before the first overlapping item and itemPadding
\* items after the last one, or all the items there are on that side (stated
\* here for a positive estimate and non-negative heights only).
PaddingItemsIncluded ==
    (/\ lastCall = "calculateVisibleItemsGenerator"
     /\ estimatedItemHeight > 0
     /\ AllHeightsNonNegative
     /\ \E i \in Indices : OverlapsViewport(i)) =>
        LET overlapping == {i \in Indices : OverlapsViewport(i)}
            first == Least(overlapping)
            last  == Greatest(overlapping)
        IN  /\ \A i \in Indices :
                   (first - itemPadding <= i /\ i < first) => i \in YieldedSet(returned)
            /\ \A i \in Indices :
                   (last < i /\ i <= last + itemPadding) => i \in YieldedSet(returned)

\* What C18 says of the yielded sequence: a non-empty contiguous ascending run
\* of valid indices, each with its item.
YieldedRun ==
    /\ Len(returned) >= 1
    /\ YieldedIndices(returned) =
           Run(returned[1].index, returned[1].index + Len(returned) - 1)
    /\ returned[1].index >= 0
    /\ returned[Len(returned)].index + 1 <= N
    /\ \A k \in 1..Len(returned) : returned[k].item = items[returned[k].index + 1]

\* C18 as claimed: for n >= 1, in every reachable state, the indices yielded
\* by calculateVisibleItemsGenerator are startIndex .. endIndex-1 with
\* 0 <= startIndex < endIndex <= n, and every yielded item is items[i].
YieldedRunInRange ==
    (lastCall = "calculateVisibleItemsGenerator" /\ N >= 1) => YieldedRun

\* C18 for engines built with a non-negative estimate, whatever the heights
\* the updates have set (negative ones included).
YieldedRunInRangeForValidEstimate ==
    (/\ lastCall = "calculateVisibleItemsGenerator"
     /\ N >= 1
     /\ estimatedItemHeight >= 0) => YieldedRun

---------------------------------------------------------------------------
(* Properties of the component (checked under SpecComponent).              *)

\* A step in which scheduleUpdate is called.
CallsScheduleUpdate ==
    \/ lastCall' = "itemsChanged"
    \/ lastCall' = "debounceTimer"
    \/ lastCall' = "onScroll" /\ throttle = "idle"
    \/ lastCall' = "throttleTimer" /\ throttle = "trailing"

\* C19: at most one frame callback is pending at any time; a step requests a
\* frame only when none is pending; a step that calls scheduleUpdate on a
\* component that was never disconnected leaves exactly one callback pending;
\* and the step that runs the callback computes the visible items once and
\* leaves no callback pending, so the events up to it are answered by one run
\* of processVisibleItems.
OneFramePending ==
    /\ [](Cardinality(pendingFrames) <= 1)
    /\ [][/\ ~(pendingFrames' \subseteq pendingFrames) => pendingFrames = {}
          /\ (phase = "loaded" /\ CallsScheduleUpdate) =>
                 Cardinality(pendingFrames') = 1
          /\ lastCall' = "frame" =>
                 /\ pendingFrames # {}
                 /\ pendingFrames' = {}
                 /\ animationFrame' = 0
                 /\ visibleItems' = VisibleItems(tree, items, estimatedItemHeight,
                                                 scrollTop, clientHeight, itemPadding)
          /\ lastCall' # "frame" => visibleItems' = visibleItems]_vars

\* A frame is pending after a burst: the scroll position has moved, a second
\* scroll event is kept by the throttle and the resize timer is running.
OneFramePendingWitness ==
    /\ phase = "loaded"
    /\ Cardinality(pendingFrames) = 1
    /\ visibleItems # <<>>
    /\ scrollTop > 0
    /\ throttle = "trailing"
    /\ debounce = "waiting"

\* The engine is one built for the array its, with every height the estimate.
FreshEngineFor(its, t) ==
    /\ Length(t) = Len(its)
    /\ \A i \in 0..(Len(its) - 1) : QueryRange(t, i, i) = estimatedItemHeight
    /\ t = InitItemHeightData(its, estimatedItemHeight)

---------------------------------------------------------------------------
(* The two variants of binarySearch.                                       *)

\* The indices whose prefix sum is value.
IndicesWithSum(value) == {i \in Indices : Query(tree, i) = value}

\* C21 as claimed: for n >= 1 and non-negative heights, the older and the
\* current binarySearch return the same index for every value, except for a
\* value that is the prefix sum of more than one index.
SearchVariantsAgreeOffTies ==
    (N >= 1 /\ estimatedItemHeight > 0 /\ AllHeightsNonNegative) =>
        \A value \in SearchValues :
            Cardinality(IndicesWithSum(value)) <= 1 =>
                OlderBinarySearch(tree, value) = BinarySearch(tree, value)

\* C21 amended: for n >= 1 and non-negative heights, the two variants return
\* the same index for a value that is the prefix sum of exactly one index and
\* for a value above the total; for a value that is no prefix sum and at most
\* the total the older variant returns one less than the current one (-1 for
\* a value below the first prefix sum).
SearchVariantsAgreeOnSums ==
    (N >= 1 /\ AllHeightsNonNegative) =>
        \A value \in SearchValues :
            /\ Cardinality(IndicesWithSum(value)) = 1 =>
                   /\ OlderBinarySearch(tree, value) = BinarySearch(tree, value)
                   /\ IndicesWithSum(value) = {BinarySearch(tree, value)}
            /\ value > Query(tree, N - 1) =>
                   /\ OlderBinarySearch(tree, value) = BinarySearch(tree, value)
                   /\ BinarySearch(tree, value) = N - 1
            /\ (IndicesWithSum(value) = {} /\ value <= Query(tree, N - 1)) =>
                   OlderBinarySearch(tree, value) = BinarySearch(tree, value) - 1

\* A list of MaxN items after a height update, with distinct prefix sums: the
\* variants agree on the second prefix sum and differ by one on the value
\* just below it, which is no prefix sum.
SearchVariantsWitness ==
    /\ lastCall = "updateItemData"
    /\ N = MaxN
    /\ \A i \in Indices : Height(i) > 0
    /\ Height(1) = 2
    /\ OlderBinarySearch(tree, Query(tree, 1)) = 1
    /\ BinarySearch(tree, Query(tree, 1)) = 1
    /\ BinarySearch(tree, Query(tree, 1) - 1) = 1
    /\ OlderBinarySearch(tree, Query(tree, 1) - 1) = 0

---------------------------------------------------------------------------
(* Updates after a disconnect.                                             *)

\* C22 as claimed, in the form a finite run can refute: a call of
\* scheduleUpdate made while the component is connected leaves a frame
\* callback pending, which is what the run of processVisibleItems that must
\* follow the call needs.
ScheduleUpdateLeavesFrame ==
    [][(phase # "disconnected" /\ CallsScheduleUpdate) => pendingFrames' # {}]_vars

\* scheduleUpdate has just been called on a connected component.
ScheduleUpdateCalled ==
    /\ phase # "disconnected"
    /\ \/ lastCall = "itemsChanged"
       \/ lastCall = "debounceTimer"
       \/ lastCall = "onScroll" /\ throttle = "waiting"
       \/ lastCall = "throttleTimer" /\ throttle = "waiting"

\* C22 as a temporal formula: every call of scheduleUpdate on a connected
\* component is followed by a run of processVisibleItems, unless the
\* component is disconnected first.
ScheduleUpdateLeadsToFrame ==
    ScheduleUpdateCalled ~> (lastCall = "frame" \/ phase = "disconnected")

\* The part of C22 that holds: on a component that was never disconnected
\* every call of scheduleUpdate is followed by a run of processVisibleItems
\* or by a disconnect.
ScheduleUpdateLeadsToFrameWhileLoaded ==
    (ScheduleUpdateCalled /\ phase = "loaded") ~>
        (lastCall = "frame" \/ phase = "disconnected")


---------------------------------------------------------------------------
(* The rendered elements and the registry of observed elements.            *)

\* The indices of the item elements in the content element.
RenderedIndices == {rendered[k].index : k \in 1..Len(rendered)}

\* The indices observedElements has an entry for.
RegisteredIndices == {e[1] : e \in observedElements}

\* The element at position k shows index, is registered for it and is observed.
RegisteredAndObserved(k, index) ==
    /\ <<index, k>> \in observedElements
    /\ k \in observing

\* C23: after a render, every index whose element is rendered is registered in
\* observedElements with that element and the observer observes the element,
\* and no index without a rendered element is registered; in particular an
\* item that was observed before the render and is rendered again is observed
\* after it.
RenderedAreObserved ==
    lastCall = "render" =>
        /\ \A k \in 1..Len(rendered) : RegisteredAndObserved(k, rendered[k].index)
        /\ RegisteredIndices \subseteq RenderedIndices


\* The last part alone, for a list that has items and shows items of its
\* engine: a render leaves an element registered and observed that was so
\* before it and shows the index it showed.
RerenderKeepsObserved ==
    [][(/\ lastCall' = "render"
        /\ N > 0
        /\ \A j \in 1..Len(visibleItems) :
               visibleItems[j].item = ItemAt(items, visibleItems[j].index)
        /\ \A j \in 1..Len(rendered) : rendered[j].index \in Indices) =>
          \A k \in 1..Len(rendered) :
              (/\ k <= Len(rendered')
               /\ rendered'[k].index = rendered[k].index
               /\ rendered[k].index \in Indices
               /\ RegisteredAndObserved(k, rendered[k].index))
                  => /\ <<rendered[k].index, k>> \in observedElements'
                     /\ k \in observing']_vars


\* C24: at every render, every index held in visibleItems is an index of the
\* current engine, so render calls getItemData with indices in [0, n) only.
\* (A render leaves the engine and visibleItems as they are, and rendered holds
\* the indices it called getItemData with.)
RenderCallsInRange ==
    lastCall = "render" =>
        \A k \in 1..Len(rendered) : rendered[k].index \in Indices

\* The same for the renders of a list that has items, where the index an
\* empty engine yields plays no part.
RenderCallsInRangeOfItems ==
    (lastCall = "render" /\ N > 0) => RenderCallsInRange


---------------------------------------------------------------------------
(* The slots of the store.                                                 *)

\* C25: after construction and any in-range updates the slot array has length
\* n + 1, slot 0 is 0, and each slot k in 1..n holds the sum of the current
\* weights at the 0-based indices k - lowbit(k) .. k - 1.  (Slot k is tree[k + 1].)
SlotsHoldBlockSums ==
    /\ Len(tree) = Len(w) + 1
    /\ tree[1] = 0
    /\ \A k \in 1..Len(w) : tree[k + 1] = NaiveSum(w, k - LowBit(k), k - 1)

\* An update has run on a store of MaxN weights whose slot 2 holds the sum of
\* two different weights, neither of them 0, and differs from slot 1.
SlotsWitness ==
    /\ lastCall = "update"
    /\ Len(w) = MaxN
    /\ w[1] # 0
    /\ w[2] # 0
    /\ w[1] # w[2]
    /\ tree[3] = w[1] + w[2]
    /\ tree[3] # tree[2]

=============================================================================
